---------------------------- MODULE Spec2Model ----------------------------
(***************************************************************************)
(* Model of src/route_analyzer.py: the YouTube route analyzer batch job.   *)
(*                                                                         *)
(* Python strings are modelled as sequences of one-character strings, so   *)
(* that `in`, split() and strip() are computed and not assumed.            *)
(* Optional[str] is the record [some, val]; a JSON value is the record     *)
(* [t, v] with t in {"null", "str", "list", "obj"}.                        *)
(***************************************************************************)
EXTENDS Integers, Sequences, FiniteSets, TLC

VARIABLES
    sheet,      \* the store's table: sequence of rows, row 1 is the header
    keyFile,    \* TRUE while service_account_key.json exists on disk
    pc,         \* position of the process
    exitCode,   \* exit status of the terminated process, -1 while running
    all_data,   \* main(): result of sheet.get_all_values()
    row_index,  \* main(): loop variable of enumerate(data_rows)
    updates,    \* main(): the accumulator of row updates
    calls,      \* collaborator calls of this run, in order: <<op, sheet row>>
    out,        \* lines printed by this run, in order: <<kind, sheet row>>
    batches,    \* arguments of the sheet.batch_update calls of this run
    marked,     \* sheet rows an earlier run wrote with a non-empty marker cell
    blanked,    \* sheet rows whose latest write left the marker cell empty
    input,      \* argument of the function under test (function specifications)
    output      \* its result

vars == <<sheet, keyFile, pc, exitCode, all_data, row_index, updates,
          calls, out, batches, marked, blanked, input, output>>

runVars == <<sheet, keyFile, pc, exitCode, all_data, row_index, updates,
             calls, out, batches, marked, blanked>>

-----------------------------------------------------------------------------
(* Bounds of the model *)

MaxRows == 2        \* data rows of the table (below the header)
MaxIdLen == 2       \* characters of a generated identifier
MaxRestParts == 2   \* query parameters after the identifier
MaxWay == 11        \* waypoints of a generated route record

-----------------------------------------------------------------------------
(* Program constants, src/route_analyzer.py:12-15 (0-based column indices) *)

URL_COLUMN_INDEX == 4
START_COLUMN_INDEX == 12
END_COLUMN_INDEX == 23
WAYPOINT_SLOTS == 10

-----------------------------------------------------------------------------
(* Python string primitives *)

Empty == << >>

\* sub in s
Contains(s, sub) ==
    \E i \in 1..(Len(s) - Len(sub) + 1) : SubSeq(s, i, i + Len(sub) - 1) = sub

\* index of the leftmost occurrence of sub in s (0 when there is none)
FindFirst(s, sub) ==
    IF Contains(s, sub)
    THEN CHOOSE i \in 1..(Len(s) - Len(sub) + 1) :
            /\ SubSeq(s, i, i + Len(sub) - 1) = sub
            /\ \A j \in 1..(i - 1) : SubSeq(s, j, j + Len(sub) - 1) # sub
    ELSE 0

\* s.split(sep): the pieces between the non-overlapping occurrences, left to right
RECURSIVE Split(_, _)
Split(s, sep) ==
    LET i == FindFirst(s, sep) IN
    IF i = 0 THEN <<s>>
    ELSE <<SubSeq(s, 1, i - 1)>> \o Split(SubSeq(s, i + Len(sep), Len(s)), sep)

Last(q) == q[Len(q)]

Whitespace == {" ", "\t", "\n"}

RECURSIVE LStrip(_)
LStrip(s) == IF s # Empty /\ Head(s) \in Whitespace THEN LStrip(Tail(s)) ELSE s

RECURSIVE RStrip(_)
RStrip(s) ==
    IF s # Empty /\ s[Len(s)] \in Whitespace THEN RStrip(SubSeq(s, 1, Len(s) - 1)) ELSE s

\* s.strip()
Strip(s) == RStrip(LStrip(s))

\* sep.join(parts)
RECURSIVE Join(_, _)
Join(sep, parts) ==
    IF parts = << >> THEN Empty
    ELSE IF Len(parts) = 1 THEN parts[1]
    ELSE parts[1] \o sep \o Join(sep, Tail(parts))

None == [some |-> FALSE, val |-> Empty]
Some(s) == [some |-> TRUE, val |-> s]

\* the test `is not None` in place of the truth value
TruthyNotNone(o) == o.some

\* truth value of an Optional[str]: None and "" are falsy
Truthy(o) == o.some /\ o.val # Empty

-----------------------------------------------------------------------------
(* get_video_id *)

HostMarker == <<"y", "o", "u", "t", "u", ".", "b", "e">>
VParam == <<"v", "=">>
Slash == <<"/">>
Question == <<"?">>
Amp == <<"&">>

\* the reference itself returned when no shape matches
get_video_id_fallback(url) ==
    IF Contains(url, HostMarker)
    THEN Some(Split(Last(Split(url, Slash)), Question)[1])
    ELSE IF Contains(url, VParam)
    THEN Some(Split(Last(Split(url, VParam)), Amp)[1])
    ELSE Some(url)

get_video_id(url) ==
    IF Contains(url, HostMarker)
    THEN Some(Split(Last(Split(url, Slash)), Question)[1])
    ELSE IF Contains(url, VParam)
    THEN Some(Split(Last(Split(url, VParam)), Amp)[1])
    ELSE None

-----------------------------------------------------------------------------
(* JSON values, as json.loads returns them *)

JNull == [t |-> "null", v |-> << >>]
JStr(s) == [t |-> "str", v |-> s]
JList(q) == [t |-> "list", v |-> q]
JObj(f) == [t |-> "obj", v |-> f]

KStart == <<"s", "t", "a", "r", "t">>
KEnd == <<"e", "n", "d">>
KWaypoints == <<"w", "a", "y", "p", "o", "i", "n", "t", "s">>

\* a failure record that carries a text in start
ZeroRecordWithText ==
    JObj([k \in {KStart, KEnd, KWaypoints} |->
            IF k = KWaypoints THEN JList(<< >>)
            ELSE IF k = KStart THEN JStr(<<"?">>) ELSE JStr(Empty)])

\* {'start': '', 'end': '', 'waypoints': []}
ZeroRecord ==
    JObj([k \in {KStart, KEnd, KWaypoints} |->
            IF k = KWaypoints THEN JList(<< >>) ELSE JStr(Empty)])

\* `k in a` raises TypeError when a is not a container
InFaults(a) == a.t = "null"

\* k in a, for a dict (key), a list (element) and a str (substring)
In(k, a) ==
    CASE a.t = "obj" -> k \in DOMAIN a.v
      [] a.t = "list" -> \E i \in 1..Len(a.v) : a.v[i] = JStr(k)
      [] a.t = "str" -> Contains(a.v, k)
      [] OTHER -> FALSE

-----------------------------------------------------------------------------
(* get_transcript: the provider raises TranscriptsDisabled, raises another *)
(* exception, or returns the list of the fragments' texts                  *)

Space == <<" ">>

\* the error text returned in place of None
get_transcript_error_text(provider) ==
    IF provider.kind = "fragments"
    THEN Some(Join(Space, provider.texts))
    ELSE Some(<<"e", "r", "r", "o", "r">>)

get_transcript(provider) ==
    IF provider.kind = "fragments"
    THEN Some(Join(Space, provider.texts))
    ELSE None

\* the line get_transcript prints, "" when it prints nothing
TranscriptPrint(provider) ==
    CASE provider.kind = "disabled" -> "transcripts_disabled"
      [] provider.kind = "error" -> "transcript_error"
      [] OTHER -> ""

-----------------------------------------------------------------------------
(* analyze_route_with_gemini: the service raises, returns text json.loads  *)
(* rejects, or returns text that parses to the JSON value resp.val         *)

StructureOk(a) == In(KStart, a) /\ In(KEnd, a) /\ In(KWaypoints, a)

analyze_route_with_gemini(resp) ==
    IF resp.kind # "json" THEN ZeroRecord
    ELSE IF InFaults(resp.val) THEN ZeroRecord
    ELSE IF StructureOk(resp.val) THEN resp.val
    ELSE ZeroRecord

\* the line analyze_route_with_gemini prints, "" when it prints nothing
AnalyzePrint(resp) ==
    IF resp.kind # "json" \/ InFaults(resp.val) THEN "gemini_error"
    ELSE IF StructureOk(resp.val) THEN ""
    ELSE "gemini_warning"

-----------------------------------------------------------------------------
(* main(): assembly of the write vector, lines 177-200 *)

\* d.get(k, default)
Get(a, k, default) == IF k \in DOMAIN a.v THEN a.v[k] ELSE default

\* len(w) raises TypeError when w has no length
LenFaults(w) == w.t = "null"

PyLen(w) == IF w.t = "obj" THEN Cardinality(DOMAIN w.v) ELSE Len(w.v)

\* w[i] (0-based) of a list or a str; a dict has no integer key
Index(w, i) == IF w.t = "str" THEN JStr(<<w.v[i + 1]>>) ELSE w.v[i + 1]

\* lines 178-192 raise: .get on a value that is no dict, len() of a value
\* without length, or w[0] on a non-empty dict
AssemblyFaults(a) ==
    \/ a.t # "obj"
    \/ LET w == Get(a, KWaypoints, JList(<< >>)) IN
          LenFaults(w) \/ (w.t = "obj" /\ PyLen(w) > 0)

\* the waypoint slots filled without the length test (a short list would fault)
WaypointSlotsAll(w) ==
    [i \in 1..PyLen(w) |-> Index(w, i - 1)]

\* for i in range(10): waypoints[i] if i < len(waypoints) else ""
WaypointSlots(w) ==
    [i \in 1..WAYPOINT_SLOTS |->
        IF i - 1 < PyLen(w) THEN Index(w, i - 1) ELSE JStr(Empty)]

\* write_data of a record on which the assembly does not fault
WriteData(a) ==
    <<Get(a, KStart, JStr(Empty))>>
        \o WaypointSlots(Get(a, KWaypoints, JList(<< >>)))
        \o <<Get(a, KEnd, JStr(Empty))>>

\* the range of the row above: row_index + 1 in place of row_index + 2
RangeNameRowAbove(n) == [c1 |-> "M", r1 |-> n - 1, c2 |-> "X", r2 |-> n - 1]

\* f'M{n}:X{n}' as the range it denotes
RangeName(n) == [c1 |-> "M", r1 |-> n, c2 |-> "X", r2 |-> n]

Update(n, a) == [range |-> RangeName(n), values |-> <<WriteData(a)>>]

-----------------------------------------------------------------------------
(* The tabular store *)

Letters == <<"A", "B", "C", "D", "E", "F", "G", "H", "I", "J", "K", "L", "M",
             "N", "O", "P", "Q", "R", "S", "T", "U", "V", "W", "X", "Y", "Z">>

\* 0-based index of a column letter
ColIndex(l) == (CHOOSE i \in 1..Len(Letters) : Letters[i] = l) - 1

\* row[idx] if len(row) > idx else ""
Cell(row, idx) == IF Len(row) > idx THEN row[idx + 1] ELSE Empty

\* the cell after val is written to it: a string replaces it, null leaves it
Written(old, val) == IF val.t = "str" THEN val.v ELSE old

\* one row update applied to the table
ApplyUpdate(tbl, u) ==
    LET r == u.range.r1
        lo == ColIndex(u.range.c1)
        hi == ColIndex(u.range.c2)
        old == tbl[r]
        width == IF Len(old) > hi + 1 THEN Len(old) ELSE hi + 1
        new == [c \in 1..width |->
                  IF c - 1 >= lo /\ c - 1 <= hi /\ c - lo <= Len(u.values[1])
                  THEN Written(Cell(old, c - 1), u.values[1][c - lo])
                  ELSE Cell(old, c - 1)]
    IN [tbl EXCEPT ![r] = new]

\* sheet.batch_update(us): the updates applied in order
RECURSIVE ApplyUpdates(_, _)
ApplyUpdates(tbl, us) ==
    IF us = << >> THEN tbl ELSE ApplyUpdates(ApplyUpdate(tbl, Head(us)), Tail(us))

-----------------------------------------------------------------------------
(* Inputs of a run: the table's rows and the collaborators' answers *)

UrlShort == <<"h", "t", "t", "p", "s", ":", "/", "/", "y", "o", "u", "t", "u", ".", "b", "e", "/", "a", "b">>
UrlLong == <<"h", "t", "t", "p", "s", ":", "/", "/", "w", "w", "w", ".", "y", "o", "u", "t", "u", "b", "e", ".", "c", "o", "m", "/", "w", "a", "t", "c", "h", "?", "v", "=", "a", "b", "&", "t", "=", "5">>
UrlOther == <<"h", "t", "t", "p", "s", ":", "/", "/", "e", "x", "a", "m", "p", "l", "e", ".", "c", "o", "m", "/", "a", "b", "c">>
UrlBlank == <<" ", " ">>

\* a row of the given length with its reference and marker cells set
Row(len, url, marker) ==
    [c \in 1..len |->
        IF c - 1 = URL_COLUMN_INDEX THEN url
        ELSE IF c - 1 = START_COLUMN_INDEX THEN marker
        ELSE Empty]

RowChoices ==
    { << >>,
      Row(URL_COLUMN_INDEX + 1, Space \o UrlLong \o Space, Empty),
      Row(URL_COLUMN_INDEX + 1, UrlOther, Empty),
      Row(START_COLUMN_INDEX + 1, UrlBlank, Empty),
      Row(START_COLUMN_INDEX + 1, Empty, <<"x">>),
      Row(END_COLUMN_INDEX + 1, UrlShort, <<"x">>) }

HeaderRow == Row(URL_COLUMN_INDEX + 1, <<"U", "R", "L">>, Empty)

\* the header is sheet row 1 (line 136: all_data[0])
HeaderRowNumber == Len(<<HeaderRow>>)

\* the tables a run may find: no row at all, or the header and 0..MaxRows data rows
Tables ==
    {<< >>} \cup
    UNION {{<<HeaderRow>> \o [i \in 1..n |-> f[i]] : f \in [1..n -> RowChoices]} :
              n \in 0..MaxRows}

TranscriptOutcomes ==
    { [kind |-> "disabled", texts |-> << >>],
      [kind |-> "error", texts |-> << >>],
      [kind |-> "fragments", texts |-> << >>],
      [kind |-> "fragments", texts |-> <<Empty>>],
      [kind |-> "fragments", texts |-> <<<<"a">>, <<"b">>>>] }

Record(start, way, end) ==
    JObj([k \in {KStart, KEnd, KWaypoints} |->
            IF k = KStart THEN start ELSE IF k = KEnd THEN end ELSE way])

RunResponses ==
    { [kind |-> "raise", val |-> JNull],
      [kind |-> "json", val |-> JObj([k \in {KStart, KEnd} |-> JStr(<<"x">>)])],
      [kind |-> "json", val |-> Record(JStr(<<"x">>), JList(<<JStr(<<"a">>), JStr(<<"b">>)>>), JStr(<<"y">>))],
      [kind |-> "json", val |-> Record(JStr(<<" ">>), JList(<< >>), JStr(<<"y">>))],
      [kind |-> "json", val |-> Record(JStr(Empty), JList(<< >>), JStr(Empty))],
      [kind |-> "json", val |-> JList(<<JStr(KStart), JStr(KEnd), JStr(KWaypoints)>>)],
      [kind |-> "json", val |-> Record(JStr(<<"x">>), JNull, JStr(<<"y">>))] }

-----------------------------------------------------------------------------
(* Module-level client initialization, lines 18-46 *)

Idle == << >>

\* GCP_SERVICE_ACCOUNT_KEY is not set: ValueError, exit(1) before the file is written
KeyMissing ==
    /\ pc = "boot"
    /\ out' = Append(out, <<"init_error", 0>>)
    /\ pc' = "exited"
    /\ exitCode' = 1
    /\ UNCHANGED <<sheet, keyFile, all_data, row_index, updates, calls, batches,
                   marked, blanked, input, output>>

\* the key file is written, then a client constructor raises: exit(1)
InitFault ==
    /\ pc = "boot"
    /\ keyFile' = TRUE
    /\ out' = Append(out, <<"init_error", 0>>)
    /\ pc' = "exited"
    /\ exitCode' = 1
    /\ UNCHANGED <<sheet, all_data, row_index, updates, calls, batches,
                   marked, blanked, input, output>>

InitOk ==
    /\ pc = "boot"
    /\ keyFile' = TRUE
    /\ pc' = "main"
    /\ UNCHANGED <<sheet, exitCode, all_data, row_index, updates, calls, out,
                   batches, marked, blanked, input, output>>

-----------------------------------------------------------------------------
(* main(), lines 125-219 *)

\* lines 131-142: opening the sheet or reading it raises, or all_data[0] does
OpenAndRead ==
    /\ pc = "main"
    /\ \E fault \in BOOLEAN :
          IF fault \/ sheet = << >>
          THEN /\ out' = Append(out, <<"fatal", 0>>)
               /\ pc' = "finally"
               /\ UNCHANGED <<all_data, row_index, updates>>
          ELSE /\ all_data' = sheet
               /\ row_index' = 0
               /\ updates' = << >>
               /\ pc' = "loop"
               /\ UNCHANGED out
    /\ UNCHANGED <<sheet, keyFile, exitCode, calls, batches, marked, blanked, input, output>>

\* lines 149-150: the reference and the marker of a row, stripped
ReferenceOf(row) == Strip(Cell(row, URL_COLUMN_INDEX))

\* the marker read from the reference column, under the reference's length test
MarkerOfReferenceColumn(row) == Strip(Cell(row, URL_COLUMN_INDEX))

MarkerOf(row) == Strip(Cell(row, START_COLUMN_INDEX))

\* the test of line 152 left out
EmptyReferenceNever(row) == FALSE

\* line 152: not url
EmptyReference(row) == ReferenceOf(row) = Empty

\* the test of line 157 inverted
AlreadyAnalyzedInverted(row) == MarkerOf(row) = Empty

\* a row counts as analyzed as soon as it has a marker cell, empty or not
AlreadyAnalyzedWhenWritten(row) == Len(row) > START_COLUMN_INDEX

\* no row counts as analyzed
AlreadyAnalyzedNever(row) == FALSE

\* line 157: current_start
AlreadyAnalyzed(row) == MarkerOf(row) # Empty

\* [x] if the line is printed, [] if not
Line(kind, n) == IF kind = "" THEN << >> ELSE <<<<kind, n>>>>

\* one iteration of the loop of lines 144-202 on sheet row n, with the
\* provider's and the service's answers: what it prints, calls and appends,
\* and whether it raises out of the loop
RowStep(n, row, provider, resp) ==
    LET video_id == get_video_id(ReferenceOf(row))
        transcript == get_transcript(provider)
        analysis_result == analyze_route_with_gemini(resp)
        same == [prints |-> << >>, called |-> << >>, appended |-> << >>, raised |-> FALSE]
    IN
    IF EmptyReference(row)
    THEN [same EXCEPT !.prints = <<<<"skip_empty", n>>>>]
    ELSE IF AlreadyAnalyzed(row)
    THEN [same EXCEPT !.prints = <<<<"skip_done", n>>>>]
    ELSE IF ~Truthy(video_id)
    THEN [same EXCEPT !.prints = <<<<"invalid_url", n>>>>,
                      !.called = <<<<"resolve", n>>>>]
    ELSE IF ~Truthy(transcript)
    THEN [same EXCEPT !.prints = Line(TranscriptPrint(provider), n)
                                    \o <<<<"skip_transcript", n>>>>,
                      !.called = <<<<"resolve", n>>, <<"transcript", n>>>>]
    ELSE IF AssemblyFaults(analysis_result)
    THEN [same EXCEPT !.prints = Line(TranscriptPrint(provider), n)
                                    \o Line(AnalyzePrint(resp), n) \o <<<<"fatal", n>>>>,
                      !.called = <<<<"resolve", n>>, <<"transcript", n>>, <<"extract", n>>>>,
                      !.raised = TRUE]
    ELSE [same EXCEPT !.prints = Line(TranscriptPrint(provider), n)
                                    \o Line(AnalyzePrint(resp), n) \o <<<<"analyzed", n>>>>,
                      !.called = <<<<"resolve", n>>, <<"transcript", n>>, <<"extract", n>>>>,
                      !.appended = <<Update(n, analysis_result)>>]

\* the answers that matter to a row: the provider is asked only for an eligible
\* row with a recognized reference, the service only for a non-empty transcript
Asked(row) ==
    /\ ~EmptyReference(row)
    /\ ~AlreadyAnalyzed(row)
    /\ Truthy(get_video_id(ReferenceOf(row)))

ProcessRow ==
    /\ pc = "loop"
    /\ row_index < Len(all_data) - 1
    /\ LET n == row_index + 2
           asked == Asked(all_data[n])
       IN \E provider \in IF asked THEN TranscriptOutcomes
                          ELSE {CHOOSE p \in TranscriptOutcomes : TRUE} :
          \E resp \in IF asked /\ Truthy(get_transcript(provider)) THEN RunResponses
                      ELSE {CHOOSE r \in RunResponses : TRUE} :
            LET step == RowStep(n, all_data[n], provider, resp)
            IN /\ out' = out \o step.prints
               /\ calls' = calls \o step.called
               /\ updates' = updates \o step.appended
               /\ row_index' = IF step.raised THEN row_index ELSE row_index + 1
               /\ pc' = IF step.raised THEN "finally" ELSE "loop"
    /\ UNCHANGED <<sheet, keyFile, exitCode, all_data, batches, marked, blanked, input, output>>

\* lines 204-210: one bulk write of the collected updates, which may raise
Commit ==
    /\ pc = "loop"
    /\ row_index = Len(all_data) - 1
    /\ IF updates # << >>
       THEN /\ batches' = Append(batches, updates)
            /\ \E fault \in BOOLEAN :
                 IF fault
                 THEN /\ out' = Append(out, <<"fatal", 0>>)
                      /\ UNCHANGED sheet
                 ELSE /\ sheet' = ApplyUpdates(sheet, updates)
                      /\ out' = Append(out, <<"updated", Len(updates)>>)
       ELSE /\ out' = Append(out, <<"no_updates", 0>>)
            /\ UNCHANGED <<sheet, batches>>
    /\ pc' = "finally"
    /\ UNCHANGED <<keyFile, exitCode, all_data, row_index, updates, calls, marked, blanked,
                   input, output>>

\* lines 214-219: the key file is removed, main returns and the process ends
Finally ==
    /\ pc = "finally"
    /\ keyFile' = FALSE
    /\ out' = Append(out, <<"end", 0>>)
    /\ pc' = "exited"
    /\ exitCode' = 0
    /\ UNCHANGED <<sheet, all_data, row_index, updates, calls, batches, marked, blanked,
                   input, output>>

\* the rows the run that ends wrote with a marker cell that is not empty
NewlyMarked ==
    IF \E i \in 1..Len(out) : out[i][1] = "updated"
    THEN {n \in {updates[i].range.r1 : i \in 1..Len(updates)} :
            Cell(sheet[n], START_COLUMN_INDEX) # Empty}
    ELSE {}

\* the rows the run that ends wrote, and those it wrote with an empty start
WrittenRows ==
    IF \E i \in 1..Len(out) : out[i][1] = "updated"
    THEN {updates[i].range.r1 : i \in 1..Len(updates)}
    ELSE {}

NewlyBlanked == {n \in WrittenRows : Cell(sheet[n], START_COLUMN_INDEX) = Empty}

\* the job is started again on the same table
StartRun ==
    /\ pc = "exited"
    /\ marked' = marked \cup NewlyMarked
    /\ blanked' = (blanked \ WrittenRows) \cup NewlyBlanked
    /\ pc' = "boot"
    /\ exitCode' = -1
    /\ all_data' = << >>
    /\ row_index' = 0
    /\ updates' = << >>
    /\ calls' = << >>
    /\ out' = << >>
    /\ batches' = << >>
    /\ UNCHANGED <<sheet, keyFile, input, output>>

Init ==
    /\ sheet \in Tables
    /\ keyFile = FALSE
    /\ pc = "boot"
    /\ exitCode = -1
    /\ all_data = << >>
    /\ row_index = 0
    /\ updates = << >>
    /\ calls = << >>
    /\ out = << >>
    /\ batches = << >>
    /\ marked = {}
    /\ blanked = {}
    /\ input = Idle
    /\ output = Idle

Next ==
    \/ KeyMissing
    \/ InitFault
    \/ InitOk
    \/ OpenAndRead
    \/ ProcessRow
    \/ Commit
    \/ Finally
    \/ StartRun

Spec == Init /\ [][Next]_vars

-----------------------------------------------------------------------------
(* The functions on their own: the argument is drawn, the function applied *)

\* the strings of lo..hi characters over chars
Strings(chars, lo, hi) == UNION {[1..n -> chars] : n \in lo..hi}

\* 1..hi tokens joined by sep
Joined(tokens, sep, hi) == {Join(sep, q) : q \in Strings(tokens, 1, hi)}

IdleRun ==
    /\ sheet = << >>
    /\ keyFile = FALSE
    /\ exitCode = -1
    /\ all_data = << >>
    /\ row_index = 0
    /\ updates = << >>
    /\ calls = << >>
    /\ out = << >>
    /\ batches = << >>
    /\ marked = {}
    /\ blanked = {}

Ids == Strings({"a", "B", "1"}, 1, MaxIdLen)

LongPrefixes ==
    { <<"h", "t", "t", "p", "s", ":", "/", "/", "w", "w", "w", ".", "y", "o", "u", "t", "u", "b", "e", ".", "c", "o", "m", "/", "w", "a", "t", "c", "h", "?">>,
      <<"h", "t", "t", "p", "s", ":", "/", "/", "s", "i", "t", "e", "/", "w", "a", "t", "c", "h", "?">> }

RestTokens ==
    { <<"t", "=", "5">>,
      <<"f", "e", "a", "t", "u", "r", "e", "=", "y", "o", "u", "t", "u", ".", "b", "e">>,
      <<"v", "=", "z", "z">>,
      <<"r", "e", "v", "=", "1">> }

ShortPrefixes ==
    { <<"h", "t", "t", "p", "s", ":", "/", "/", "y", "o", "u", "t", "u", ".", "b", "e", "/">>,
      <<"y", "o", "u", "t", "u", ".", "b", "e", "/">> }

SuffixTokens ==
    { <<"t", "=", "5">>,
      <<"s", "i", "=", "x", "?", "y">>,
      <<"u", "=", "a", "/", "b">> }

OtherUrls ==
    { UrlOther,
      <<"a", "b", "c">>,
      <<"h", "t", "t", "p", "s", ":", "/", "/", "s", "i", "t", "e", "/", "w", "a", "t", "c", "h", "?", "v", "i", "d", "e", "o", "=", "a", "b">> }

\* references of the long-form shape: ...v=<id>&<rest>
LongUrls ==
    {[shape |-> "long", id |-> id, url |-> p \o VParam \o id \o Amp \o r] :
        p \in LongPrefixes, id \in Ids, r \in Joined(RestTokens, Amp, MaxRestParts)}

\* references of the short-form shape: .../<id> and .../<id>?<suffix>
ShortUrls ==
    {[shape |-> "short", id |-> id, url |-> p \o id] : p \in ShortPrefixes, id \in Ids}
    \cup
    {[shape |-> "short", id |-> id, url |-> p \o id \o Question \o x] :
        p \in ShortPrefixes, id \in Ids, x \in Joined(SuffixTokens, Amp, MaxRestParts)}

ResolveInputs ==
    LongUrls \cup ShortUrls \cup {[shape |-> "other", id |-> Empty, url |-> u] : u \in OtherUrls}

InitResolve ==
    /\ IdleRun
    /\ pc = "call"
    /\ input \in ResolveInputs
    /\ output = None

Resolve ==
    /\ pc = "call"
    /\ output' = get_video_id(input.url)
    /\ pc' = "return"
    /\ UNCHANGED <<sheet, keyFile, exitCode, all_data, row_index, updates, calls,
                   out, batches, marked, blanked, input>>

NextResolve == Resolve

SpecResolve == InitResolve /\ [][NextResolve]_vars

-----------------------------------------------------------------------------
(* analyze_route_with_gemini on its own *)

Absent == [t |-> "absent", v |-> << >>]

\* the object with the keys whose value is given
ObjOf(start, end, way) ==
    LET val == [k \in {KStart, KEnd, KWaypoints} |->
                  IF k = KStart THEN start ELSE IF k = KEnd THEN end ELSE way]
    IN JObj([k \in {k \in {KStart, KEnd, KWaypoints} : val[k] # Absent} |-> val[k]])

\* the lists made of some of the three key names
KeyLists ==
    {JList(q) : q \in
        { << >>, <<JStr(KStart)>>, <<JStr(KEnd)>>, <<JStr(KWaypoints)>>,
          <<JStr(KStart), JStr(KEnd)>>, <<JStr(KStart), JStr(KWaypoints)>>,
          <<JStr(KEnd), JStr(KWaypoints)>>,
          <<JStr(KStart), JStr(KEnd), JStr(KWaypoints)>> }}

ParsedValues ==
    {ObjOf(s, e, w) :
        s \in {Absent, JStr(Empty), JStr(<<" ">>), JStr(<<"x">>)},
        e \in {Absent, JStr(Empty), JStr(<<"y">>)},
        w \in {Absent, JNull, JList(<< >>), JList(<<JStr(<<"a">>)>>)}}
    \cup KeyLists
    \cup {JNull, JStr(Empty), JStr(KStart),
          JStr(<<"s", "t", "a", "r", "t", " ", "e", "n", "d", " ", "w", "a", "y", "p", "o", "i", "n", "t", "s">>)}

ExtractInputs ==
    {[kind |-> "raise", val |-> JNull], [kind |-> "garbage", val |-> JNull]}
    \cup {[kind |-> "json", val |-> a] : a \in ParsedValues}

InitExtract ==
    /\ IdleRun
    /\ pc = "call"
    /\ input \in ExtractInputs
    /\ output = JNull

Extract ==
    /\ pc = "call"
    /\ output' = analyze_route_with_gemini(input)
    /\ pc' = "return"
    /\ UNCHANGED <<sheet, keyFile, exitCode, all_data, row_index, updates, calls,
                   out, batches, marked, blanked, input>>

NextExtract == Extract

SpecExtract == InitExtract /\ [][NextExtract]_vars

-----------------------------------------------------------------------------
(* The assembly of lines 177-192 on its own *)

RouteRecords ==
    {Record(JStr(<<"s">>), JList(w), JStr(<<"e">>)) :
        w \in Strings({JStr(<<"a">>), JStr(<<"b">>)}, 0, MaxWay)}

InitAssemble ==
    /\ IdleRun
    /\ pc = "call"
    /\ input \in RouteRecords
    /\ output = << >>

Assemble ==
    /\ pc = "call"
    /\ ~AssemblyFaults(input)
    /\ output' = WriteData(input)
    /\ pc' = "return"
    /\ UNCHANGED <<sheet, keyFile, exitCode, all_data, row_index, updates, calls,
                   out, batches, marked, blanked, input>>

NextAssemble == Assemble

SpecAssemble == InitAssemble /\ [][NextAssemble]_vars

-----------------------------------------------------------------------------
(* One iteration of the loop on its own: a row of any length *)

RowInputs ==
    {Row(len, url, m) :
        len \in 0..(END_COLUMN_INDEX + 1),
        url \in {Empty, UrlShort, UrlBlank},
        m \in {Empty, <<"x">>, <<" ">>}}

FirstDataRow == HeaderRowNumber + 1

InitRow ==
    /\ IdleRun
    /\ pc = "call"
    /\ input \in [row : RowInputs, provider : TranscriptOutcomes, resp : RunResponses]
    /\ output = Idle

RowCall ==
    /\ pc = "call"
    /\ output' = [url |-> ReferenceOf(input.row),
                  current_start |-> MarkerOf(input.row),
                  step |-> RowStep(FirstDataRow, input.row, input.provider, input.resp)]
    /\ pc' = "return"
    /\ UNCHANGED <<sheet, keyFile, exitCode, all_data, row_index, updates, calls,
                   out, batches, marked, blanked, input>>

NextRow == RowCall

SpecRow == InitRow /\ [][NextRow]_vars

-----------------------------------------------------------------------------
(* Row pipeline and batch writer (Spec) *)

DataRows == 2..Len(all_data)

\* the loop has finished its iteration on sheet row n
Scanned(n) == n \in DataRows /\ n - 2 < row_index

Called(op, n) == \E i \in 1..Len(calls) : calls[i] = <<op, n>>

Printed(kind, n) == \E i \in 1..Len(out) : out[i] = <<kind, n>>

UpdatesFor(n) == {i \in 1..Len(updates) : updates[i].range.r1 = n}

\* some batch handed to the store carries an update for row n
InBatch(n) ==
    \E b \in 1..Len(batches) : \E i \in 1..Len(batches[b]) : batches[b][i].range.r1 = n

Fatal == \E i \in 1..Len(out) : out[i][1] = "fatal"

Committed == \E i \in 1..Len(out) : out[i][1] \in {"updated", "no_updates"}

BlankVector == [i \in 1..(WAYPOINT_SLOTS + 2) |-> JStr(Empty)]

\* C2: once a run has written a row so that its marker cell is non-empty,
\* every later run skips that row: no transcript call, no extraction call and
\* no update for it.
C2_MarkedRowSkipped ==
    \A n \in marked :
        /\ ~Called("transcript", n)
        /\ ~Called("extract", n)
        /\ UpdatesFor(n) = {}
        /\ Scanned(n) => Printed("skip_done", n)

\* C2 as amended: once a run has written a row so that its marker cell is
\* non-empty after surrounding whitespace is trimmed, every later run, which
\* reads that marker, skips the row: no resolver, transcript or extraction call
\* and no update for it.
C2_NonBlankMarkedRowSkipped ==
    \A n \in marked \cap DataRows :
        Strip(Cell(all_data[n], START_COLUMN_INDEX)) # Empty =>
            /\ ~Called("resolve", n)
            /\ ~Called("transcript", n)
            /\ ~Called("extract", n)
            /\ UpdatesFor(n) = {}
            /\ ~InBatch(n)
            /\ Scanned(n) => Printed("skip_done", n)

\* a later run has skipped a row that an earlier run marked
C2_Witness ==
    \E n \in marked \cap DataRows :
        /\ Strip(Cell(all_data[n], START_COLUMN_INDEX)) # Empty
        /\ Printed("skip_done", n)
        /\ pc = "exited"

\* the provider failed for row n: narration disabled, or another fault
AcquisitionFailed(n) ==
    Printed("transcripts_disabled", n) \/ Printed("transcript_error", n)

\* C3: when transcript acquisition for a row fails, the row is reported as
\* failed, the extractor is not called for it, no update for it is collected or
\* written, and the run goes on with the next row and to the commit.
C3_AcquisitionFailureIsolated ==
    /\ \A n \in DataRows :
          AcquisitionFailed(n) =>
              /\ Printed("skip_transcript", n)
              /\ Called("transcript", n)
              /\ ~Called("extract", n)
              /\ UpdatesFor(n) = {}
              /\ ~InBatch(n)
              /\ Scanned(n)
              /\ Last(out) = <<"skip_transcript", n>> => pc = "loop"
    /\ (pc \in {"finally", "exited"} /\ exitCode # 1 /\ ~Fatal) => Committed

\* a row failed with narration disabled, the next row was analyzed and the
\* batch was written
C3_Witness ==
    \E n \in DataRows :
        /\ Printed("transcripts_disabled", n)
        /\ Printed("analyzed", n + 1)
        /\ Len(batches) = 1
        /\ pc = "exited"

\* the extractor reported a malformed response for row n
ExtractionFailed(n) == Printed("gemini_error", n) \/ Printed("gemini_warning", n)

\* row n failed before the extraction
FailedEarly(n) == Printed("invalid_url", n) \/ Printed("skip_transcript", n)

\* C5: every row-level failure, a malformed extraction response included, is
\* isolated to its row: no write for the row in the batch, the next row is
\* processed, and the marker stays empty for the next run.
C5_FailedRowNotWritten ==
    \A n \in DataRows :
        (FailedEarly(n) \/ ExtractionFailed(n)) =>
            /\ UpdatesFor(n) = {}
            /\ ~InBatch(n)
            /\ Scanned(n)
            /\ Strip(Cell(sheet[n], START_COLUMN_INDEX)) = Empty

\* C5 as amended: a row that fails on its reference or its transcript produces
\* no write; a row whose extraction response is malformed, so that the
\* extractor returns the zero-value record, produces an update of K+2 empty
\* strings. In both cases the next row is processed, the marker stays empty
\* and the reference non-empty, and a run processes every such row it scans.
C5_FailedRowStaysEligible ==
    /\ \A n \in DataRows :
          FailedEarly(n) => UpdatesFor(n) = {} /\ ~InBatch(n)
    /\ \A n \in DataRows :
          ExtractionFailed(n) =>
              /\ \E i \in UpdatesFor(n) : updates[i].values = <<BlankVector>>
              /\ \A i \in UpdatesFor(n) : updates[i].values = <<BlankVector>>
    /\ \A n \in DataRows :
          (FailedEarly(n) \/ ExtractionFailed(n)) =>
              /\ Scanned(n)
              /\ Strip(Cell(sheet[n], START_COLUMN_INDEX)) = Empty
              /\ Strip(Cell(sheet[n], URL_COLUMN_INDEX)) # Empty
    /\ \A n \in DataRows :
          ( /\ Scanned(n)
            /\ Strip(Cell(all_data[n], START_COLUMN_INDEX)) = Empty
            /\ Strip(Cell(all_data[n], URL_COLUMN_INDEX)) # Empty ) => Called("resolve", n)

\* a malformed response was reported for a row, its blank update was written,
\* and the row is still eligible when the run has ended
C5_Witness ==
    \E n \in DataRows :
        /\ Printed("gemini_warning", n)
        /\ InBatch(n)
        /\ \E i \in 1..Len(out) : out[i][1] = "updated"
        /\ Strip(Cell(sheet[n], START_COLUMN_INDEX)) = Empty
        /\ pc = "exited"

\* C6: in every run the bulk write is called at most once: not at all when no
\* row produced an update, otherwise exactly once, after the last row, with
\* every update collected.
C6_OneBulkWrite ==
    /\ Len(batches) <= 1
    /\ batches # << >> => (batches = <<updates>> /\ row_index = Len(all_data) - 1)
    /\ pc = "exited" => (IF updates = << >> THEN batches = << >> ELSE batches = <<updates>>)

\* C7: a row whose reference cell is empty or absent is skipped without a call
\* to the resolver, the transcript provider or the extraction service, and
\* contributes no update.
C7_EmptyReferenceSkipped ==
    \A n \in DataRows :
        Cell(all_data[n], URL_COLUMN_INDEX) = Empty =>
            /\ ~Called("resolve", n)
            /\ ~Called("transcript", n)
            /\ ~Called("extract", n)
            /\ UpdatesFor(n) = {}
            /\ ~InBatch(n)
            /\ Scanned(n) => Printed("skip_empty", n)

\* a row too short to have a reference cell, and a row with an empty one, were
\* both skipped
C7_Witness ==
    \E n, m \in DataRows :
        /\ Len(all_data[n]) <= URL_COLUMN_INDEX
        /\ Printed("skip_empty", n)
        /\ Len(all_data[m]) > URL_COLUMN_INDEX
        /\ all_data[m][URL_COLUMN_INDEX + 1] = Empty
        /\ Printed("skip_empty", m)

\* the row reaches the resolver with a reference of neither shape
Unrecognized(row) ==
    LET ref == Strip(Cell(row, URL_COLUMN_INDEX)) IN
    /\ ref # Empty
    /\ Strip(Cell(row, START_COLUMN_INDEX)) = Empty
    /\ ~Contains(ref, HostMarker)
    /\ ~Contains(ref, VParam)

\* C10: a row with a non-empty reference of neither shape resolves to None and
\* fails: no transcript call, no extraction call, no update, and the next row
\* is processed.
C10_UnrecognizedReferenceFails ==
    \A n \in DataRows :
        Unrecognized(all_data[n]) =>
            /\ get_video_id(Strip(Cell(all_data[n], URL_COLUMN_INDEX))) = None
            /\ ~Called("transcript", n)
            /\ ~Called("extract", n)
            /\ UpdatesFor(n) = {}
            /\ ~InBatch(n)
            /\ Scanned(n) => (Printed("invalid_url", n) /\ Called("resolve", n))
            /\ (out # << >> /\ Last(out) = <<"invalid_url", n>>) =>
                  (pc = "loop" /\ row_index = n - 1)

\* a row failed on its reference and the row after it was analyzed
C10_Witness ==
    \E n \in DataRows :
        /\ Unrecognized(all_data[n])
        /\ Printed("invalid_url", n)
        /\ Printed("analyzed", n + 1)

-----------------------------------------------------------------------------
(* Identifier resolver (SpecResolve) *)

\* C8: for every long-form reference ...v=<id>&<rest>, whatever <rest> is,
\* get_video_id returns exactly <id>.
C8_LongFormReturnsId ==
    (pc = "return" /\ input.shape = "long") => output = Some(input.id)

\* C9: for every short-form reference .../<id> and .../<id>?<suffix>,
\* get_video_id returns exactly <id>.
C9_ShortFormReturnsId ==
    (pc = "return" /\ input.shape = "short") => output = Some(input.id)

-----------------------------------------------------------------------------
(* Route extractor (SpecExtract) *)

\* the responses the claim lists: the call raises, the text does not parse, the
\* value is no object, or the object lacks one of the three keys
Malformed(resp) ==
    \/ resp.kind # "json"
    \/ resp.val.t # "obj"
    \/ ~({KStart, KEnd, KWaypoints} \subseteq DOMAIN resp.val.v)

\* C4: for every malformed response of the service the extractor returns the
\* zero-value record start = "", end = "", waypoints = [].
C4_MalformedYieldsZeroRecord ==
    (pc = "return" /\ Malformed(input)) => output = ZeroRecord

-----------------------------------------------------------------------------
(* Fixed-width assembly (SpecAssemble) *)

Min(a, b) == IF a < b THEN a ELSE b

\* C1: for a record with w waypoints the write vector has exactly K+2 = 12
\* values: start, the first min(w, K) waypoints in order, empty strings in the
\* remaining slots, end; the waypoints past the K-th are dropped.
C1_FixedWidthVector ==
    pc = "return" =>
        LET w == input.v[KWaypoints].v
            m == Min(Len(w), WAYPOINT_SLOTS)
        IN /\ Len(output) = WAYPOINT_SLOTS + 2
           /\ Len(output) = END_COLUMN_INDEX - START_COLUMN_INDEX + 1
           /\ output[1] = input.v[KStart]
           /\ \A i \in 1..m : output[i + 1] = w[i]
           /\ \A i \in (m + 1)..WAYPOINT_SLOTS : output[i + 1] = JStr(Empty)
           /\ output[WAYPOINT_SLOTS + 2] = input.v[KEnd]

\* a record with more than K waypoints has been assembled
C1_Witness ==
    /\ pc = "return"
    /\ output # << >>
    /\ Len(input.v[KWaypoints].v) > WAYPOINT_SLOTS

-----------------------------------------------------------------------------
(* Process exit (Spec) *)

\* C11: on every exit path the temporary credential file no longer exists
\* when the process has terminated.
C11_KeyFileRemoved == pc = "exited" => keyFile = FALSE

\* C12: a fatal error during the run is caught and reported, the cleanup is
\* performed, and the process terminates with a non-zero status.
C12_FatalExitsNonZero ==
    (pc = "exited" /\ Fatal) =>
        /\ Printed("end", 0)
        /\ keyFile = FALSE
        /\ exitCode # 0

-----------------------------------------------------------------------------
(* Batch order and addressing (Spec) *)

\* the sheet rows of the lines "Analyzed" printed, in order
AnalyzedRows ==
    LET lines == SelectSeq(out, LAMBDA l : l[1] = "analyzed")
    IN [i \in 1..Len(lines) |-> lines[i][2]]

\* C13: the updates of the batch are in the order in which the successful
\* rows were scanned, and the update of the data row at 0-based position i is
\* addressed to M(i+2):X(i+2), the row's own K+2 output columns.
C13_BatchOrderAndRange ==
    /\ [i \in 1..Len(updates) |-> updates[i].range.r1] = AnalyzedRows
    /\ \A i, j \in 1..Len(updates) :
          i < j => updates[i].range.r1 < updates[j].range.r1
    /\ \A i \in 1..Len(updates) :
          LET u == updates[i] IN
          /\ u.range.r1 \in DataRows
          /\ u.range.r2 = u.range.r1
          /\ u.range.r1 - 2 < row_index
          /\ ColIndex(u.range.c1) = START_COLUMN_INDEX
          /\ ColIndex(u.range.c2) = END_COLUMN_INDEX
          /\ Len(u.values) = 1
          /\ Len(u.values[1]) = WAYPOINT_SLOTS + 2
          /\ Len(u.values[1]) = ColIndex(u.range.c2) - ColIndex(u.range.c1) + 1
    /\ \A b \in 1..Len(batches) : batches[b] = updates

\* a batch of two updates has been written
C13_Witness ==
    /\ Len(batches) = 1
    /\ Len(batches[1]) = 2
    /\ \E i \in 1..Len(out) : out[i][1] = "updated"

-----------------------------------------------------------------------------
(* Order of the calls within a run (Spec) *)

CountCalls(op, n) == Cardinality({i \in 1..Len(calls) : calls[i] = <<op, n>>})

\* C17: within a run the rows are processed in source order, one at a time;
\* for each row the provider is called at most once and the extractor at most
\* once, the extractor only right after that row's transcript was obtained,
\* and a failed acquisition is not retried.
C17_SequentialAtMostOnce ==
    /\ \A i, j \in 1..Len(calls) : i < j => calls[i][2] <= calls[j][2]
    /\ \A i, j \in 1..Len(out) :
          (i < j /\ out[i][2] >= 2 /\ out[j][2] >= 2 /\ out[j][1] # "updated")
              => out[i][2] <= out[j][2]
    /\ \A n \in DataRows :
          /\ CountCalls("resolve", n) <= 1
          /\ CountCalls("transcript", n) <= 1
          /\ CountCalls("extract", n) <= 1
          /\ (AcquisitionFailed(n) \/ Printed("skip_transcript", n)) =>
                (CountCalls("transcript", n) = 1 /\ CountCalls("extract", n) = 0)
    /\ \A i \in 1..Len(calls) :
          calls[i][1] = "extract" =>
              /\ i > 1
              /\ calls[i - 1] = <<"transcript", calls[i][2]>>
    /\ \A i \in 1..Len(calls) :
          calls[i][1] = "transcript" =>
              /\ i > 1
              /\ calls[i - 1] = <<"resolve", calls[i][2]>>

\* the acquisition failed for a row and the extractor was called for the next
C17_Witness ==
    \E n \in DataRows :
        /\ Printed("transcript_error", n)
        /\ Called("extract", n + 1)
        /\ CountCalls("transcript", n) = 1

-----------------------------------------------------------------------------
(* Shape of the extractor's record (SpecExtract) *)

\* start and end are strings and waypoints is a sequence
WellFormed(a) ==
    /\ a.t = "obj"
    /\ {KStart, KEnd, KWaypoints} \subseteq DOMAIN a.v
    /\ a.v[KStart].t = "str"
    /\ a.v[KEnd].t = "str"
    /\ a.v[KWaypoints].t = "list"

\* C14: for every parseable response, one whose waypoints value is null
\* included, the record returned has start and end strings and waypoints a
\* sequence, so the assembly of the row pipeline does not fault.
C14_RecordWellFormed ==
    (pc = "return" /\ input.kind = "json" /\ input.val.t = "obj") =>
        (WellFormed(output) /\ ~AssemblyFaults(output))

\* C15 (as stated): a row written with an empty start is processed again by
\* every later run: the run that scans it calls the provider and the extractor
\* for it.
C15_BlankRowReextracted ==
    \A n \in blanked \cap DataRows :
        Scanned(n) => Called("transcript", n) /\ Called("extract", n)

\* the update of row n that the run collected carries an empty start
EmptyStartUpdate(n) ==
    \E i \in UpdatesFor(n) : updates[i].values[1][1] = JStr(Empty)

\* C15 as amended: a row whose extraction yields an empty start is written with
\* an empty marker cell and stays eligible; every later run that scans the row
\* calls the resolver and the provider for it, and the extractor whenever the
\* provider returns a non-empty narration, for as long as the start written
\* stays empty.
C15_BlankRowRetried ==
    /\ \A n \in DataRows :
          (EmptyStartUpdate(n) /\ Printed("updated", Len(updates))) =>
              /\ Cell(sheet[n], START_COLUMN_INDEX) = Empty
              /\ ~AlreadyAnalyzed(sheet[n])
              /\ ~EmptyReference(sheet[n])
    /\ \A n \in blanked \cap DataRows :
          /\ Cell(all_data[n], START_COLUMN_INDEX) = Empty
          /\ ~Printed("skip_done", n)
          /\ ~Printed("skip_empty", n)
          /\ ~Printed("invalid_url", n)
          /\ Scanned(n) =>
                /\ Called("resolve", n)
                /\ Called("transcript", n)
                /\ Called("extract", n) <=>
                      ~(AcquisitionFailed(n) \/ Printed("skip_transcript", n))
                /\ Called("extract", n) => UpdatesFor(n) # {}

\* a row that an earlier run wrote with an empty start has been extracted
\* again, written again with an empty start, and the run has ended
C15_Witness ==
    \E n \in blanked \cap DataRows :
        /\ Called("extract", n)
        /\ EmptyStartUpdate(n)
        /\ ~Printed("gemini_error", n)
        /\ ~Printed("gemini_warning", n)
        /\ Printed("updated", Len(updates))
        /\ pc = "exited"

\* the run has read the table
TableRead == Len(all_data) = Len(sheet) /\ all_data # << >>

\* C18 (as stated): every update targets a row that had, in the table the run
\* read, a non-empty reference and an empty marker cell.
C18_TargetsHadEmptyMarker ==
    \A i \in 1..Len(updates) :
        LET n == updates[i].range.r1
        IN /\ n \in DataRows
           /\ Strip(Cell(all_data[n], URL_COLUMN_INDEX)) # Empty
           /\ Cell(all_data[n], START_COLUMN_INDEX) = Empty

\* C18 as amended: every update of a run's batch targets a data row that, in
\* the table read at the start of the run, had a reference and a marker that
\* are non-empty and empty after surrounding whitespace is trimmed; no two
\* updates target the same row, every update covers columns M..X of its one
\* row, and the header row, the rows with a non-blank marker or a blank
\* reference and the columns outside M..X keep the cells the run read.
C18_OnlyEligibleRowsWritten ==
    /\ \A i \in 1..Len(updates) :
          LET u == updates[i]
              n == u.range.r1
          IN /\ n \in DataRows
             /\ n # HeaderRowNumber
             /\ u.range.r2 = n
             /\ ColIndex(u.range.c1) = START_COLUMN_INDEX
             /\ ColIndex(u.range.c2) = END_COLUMN_INDEX
             /\ Len(u.values) = 1
             /\ Len(u.values[1]) = END_COLUMN_INDEX - START_COLUMN_INDEX + 1
             /\ Strip(Cell(all_data[n], URL_COLUMN_INDEX)) # Empty
             /\ Strip(Cell(all_data[n], START_COLUMN_INDEX)) = Empty
    /\ \A i, j \in 1..Len(updates) :
          updates[i].range.r1 = updates[j].range.r1 => i = j
    /\ \A b \in 1..Len(batches) : batches[b] = updates
    /\ TableRead =>
          \A n \in 1..Len(sheet) :
              IF \/ n = HeaderRowNumber
                 \/ Strip(Cell(all_data[n], URL_COLUMN_INDEX)) = Empty
                 \/ Strip(Cell(all_data[n], START_COLUMN_INDEX)) # Empty
              THEN sheet[n] = all_data[n]
              ELSE \A c \in (0..(START_COLUMN_INDEX - 1)) \cup {END_COLUMN_INDEX + 1} :
                      Cell(sheet[n], c) = Cell(all_data[n], c)

\* a batch was written for a row whose marker cell held a blank, next to a
\* header and rows of the table that the write left as they were read
C18_Witness ==
    /\ TableRead
    /\ Printed("updated", Len(updates))
    /\ \E n \in DataRows :
          /\ InBatch(n)
          /\ Cell(all_data[n], START_COLUMN_INDEX) = <<" ">>
          /\ sheet[n] # all_data[n]
    /\ \E m \in DataRows : AlreadyAnalyzed(all_data[m]) /\ sheet[m] = all_data[m]

-----------------------------------------------------------------------------
(* Reading a row (SpecRow) *)

\* C16: for a row of any length the reads of the reference and of the marker
\* do not fault: a missing cell reads as the empty string, a row shorter than
\* the reference column is skipped as empty reference, and a row shorter than
\* the marker column is treated as not yet analyzed.
C16_ShortRowTolerated ==
    pc = "return" =>
        LET row == input.row
            step == output.step
        IN /\ Len(row) <= URL_COLUMN_INDEX =>
                 /\ output.url = Empty
                 /\ step.prints = <<<<"skip_empty", FirstDataRow>>>>
                 /\ step.called = << >>
                 /\ step.appended = << >>
           /\ Len(row) > URL_COLUMN_INDEX =>
                 output.url = Strip(row[URL_COLUMN_INDEX + 1])
           /\ Len(row) <= START_COLUMN_INDEX =>
                 /\ output.current_start = Empty
                 /\ step.prints # <<<<"skip_done", FirstDataRow>>>>
                 /\ output.url # Empty => step.called # << >>
           /\ Len(row) > START_COLUMN_INDEX =>
                 output.current_start = Strip(row[START_COLUMN_INDEX + 1])
           /\ step.raised => Len(step.called) = 3

\* a row that has a reference but is too short to have a marker cell was
\* processed as not yet analyzed
C16_Witness ==
    /\ pc = "return"
    /\ Len(input.row) > URL_COLUMN_INDEX
    /\ Len(input.row) <= START_COLUMN_INDEX
    /\ output.url # Empty
    /\ output.step.called # << >>
    /\ output.step.appended # << >>

\* the row reaches the provider, which returns fragments whose joined text is empty
EmptyNarration(in) ==
    /\ Strip(Cell(in.row, URL_COLUMN_INDEX)) # Empty
    /\ Strip(Cell(in.row, START_COLUMN_INDEX)) = Empty
    /\ Contains(Strip(Cell(in.row, URL_COLUMN_INDEX)), HostMarker)
    /\ in.provider.kind = "fragments"
    /\ in.provider.texts \in {<< >>, <<Empty>>}

\* C19: when the provider succeeds but the concatenated narration is empty,
\* the row is treated like an acquisition failure: the extractor is not
\* called and no update is produced, so nothing is written for the row.
C19_EmptyNarrationSkipped ==
    (pc = "return" /\ EmptyNarration(input)) =>
        /\ output.step.called =
              <<<<"resolve", FirstDataRow>>, <<"transcript", FirstDataRow>>>>
        /\ output.step.prints = <<<<"skip_transcript", FirstDataRow>>>>
        /\ output.step.appended = << >>
        /\ ~output.step.raised

\* the provider returned one empty fragment for an eligible row
C19_Witness ==
    /\ pc = "return"
    /\ EmptyNarration(input)
    /\ input.provider.texts = <<Empty>>
    /\ output.step.prints = <<<<"skip_transcript", FirstDataRow>>>>

=============================================================================
